---- MODULE Spec2Model ----
(***************************************************************************)
(* A model of src/semantic_analysis.py: module initialisation (NLTK data   *)
(* download, spaCy model load), analyze_semantics and                      *)
(* print_semantic_analysis.                                                *)
(*                                                                         *)
(* The pretrained models are external.  A text is a sequence of words of a *)
(* small vocabulary; the pipeline's token attributes are looked up per     *)
(* word, its sentence segmentation is any segmentation (chosen when nlp is *)
(* run on the paragraph), and every call into a model may raise.           *)
(* A Python dict is a sequence of <<key, value>> pairs with distinct keys, *)
(* in insertion order.                                                     *)
(***************************************************************************)
EXTENDS Integers, Sequences, FiniteSets, TLC

VARIABLES
    pc,               \* position of the program
    lexicon,          \* whether the vader_lexicon data is available
    nlp,              \* whether the module-level name nlp is bound to a loaded pipeline
    paragraph,        \* argument of analyze_semantics
    doc,              \* local doc of analyze_semantics
    sia,              \* whether the local sia is a constructed analyzer
    results,          \* local results of analyze_semantics
    sentences,        \* local sentences
    sent1,            \* local sent1
    sent2,            \* local sent2
    analysis_results, \* what the caller holds: the record passed to the formatter
    passed,           \* the record as it was when the formatter was first called
    out,              \* lines written by the running formatter call
    prev_out,         \* lines written by the previous formatter call
    calls,            \* number of formatter calls started
    log               \* the calls made into the models, in order

vars == <<pc, lexicon, nlp, paragraph, doc, sia, results, sentences, sent1, sent2,
          analysis_results, passed, out, prev_out, calls, log>>

\* Longest paragraph drawn, in tokens.
MaxLen == 3
\* Largest word_frequency mapping handed directly to the formatter.
MaxWF == 11
\* The slice [:10] of print_semantic_analysis.
TopN == 10

\* An optional value is <<>> (none) or <<v>>.
NoResult == <<>>
None == <<>>

(***************************************************************************)
(* The pipeline's vocabulary and per-token attributes.                     *)
(***************************************************************************)
Vocab == {"London", "games", "Game", "is", ".", " "}

lemma_(w) ==
    CASE w = "games" -> "game"
      [] w = "is" -> "be"
      [] OTHER -> w

lower(s) ==
    CASE s = "London" -> "london"
      [] s = "Game" -> "game"
      [] OTHER -> s

is_stop(w) == w = "is"
is_punct(w) == w = "."
is_space(w) == w = " "

pos_(w) ==
    CASE w = "London" -> "PROPN"
      [] w \in {"games", "Game"} -> "NOUN"
      [] w = "is" -> "AUX"
      [] w = "." -> "PUNCT"
      [] OTHER -> "SPACE"

\* Entity label of a word, "" when the word is no entity.
label_(w) ==
    CASE w = "London" -> "GPE"
      [] w = "Game" -> "ORG"
      [] OTHER -> ""

Token(w, start) ==
    [text |-> w, lemma_ |-> lemma_(w), pos_ |-> pos_(w), is_stop |-> is_stop(w),
     is_punct |-> is_punct(w), is_space |-> is_space(w), label_ |-> label_(w),
     is_sent_start |-> start]

Texts == UNION {[1..n -> Vocab] : n \in 0..MaxLen}

\* The segmentations of n tokens: the first token starts a sentence.
Segmentations(n) == {s \in [1..n -> BOOLEAN] : n > 0 => s[1]}

Pipeline(text, seg) == [i \in 1..Len(text) |-> Token(text[i], seg[i])]

\* The text of tokens a..b of a doc.
SpanText(d, a, b) == [i \in 1..(b - a + 1) |-> d[a + i - 1].text]

Starts(d) == {i \in 1..Len(d) : d[i].is_sent_start}

\* Index of the k-th sentence start.
NthStart(d, k) == CHOOSE i \in Starts(d) : Cardinality({j \in Starts(d) : j <= i}) = k

\* Last token of the sentence starting at i.
SentEnd(d, i) ==
    IF \E j \in Starts(d) : j > i
    THEN (CHOOSE j \in Starts(d) : j > i /\ \A m \in Starts(d) : m > i => j <= m) - 1
    ELSE Len(d)

\* doc.sents
sents(d) ==
    [k \in 1..Cardinality(Starts(d)) |->
        [start |-> NthStart(d, k), end |-> SentEnd(d, NthStart(d, k))]]

\* token.head of token i: the first token of its sentence.
head(d, i) == CHOOSE j \in Starts(d) : j <= i /\ \A m \in Starts(d) : m <= i => m <= j

dep_(d, i) ==
    IF d[i].is_sent_start THEN "ROOT"
    ELSE IF d[i].is_punct THEN "punct"
    ELSE "dep"

(***************************************************************************)
(* Python dicts and the sentiment scorers.                                 *)
(***************************************************************************)
Keys(d) == {d[i][1] : i \in 1..Len(d)}

Get(d, k) == d[CHOOSE i \in 1..Len(d) : d[i][1] = k][2]

\* d[k] = v
Put(d, k, v) ==
    IF k \in Keys(d)
    THEN [i \in 1..Len(d) |-> IF d[i][1] = k THEN <<k, v>> ELSE d[i]]
    ELSE Append(d, <<k, v>>)

Count(text, S) == Cardinality({i \in 1..Len(text) : text[i] \in S})

\* TextBlob(text).sentiment, in thousandths.
TextBlobSentiment(text) ==
    [polarity |-> IF Len(text) = 0 THEN 0
                  ELSE (Count(text, {"games"}) * 375 - Count(text, {"is"}) * 125)
                       \div Len(text),
     subjectivity |-> IF Len(text) = 0 THEN 0
                      ELSE (Count(text, {"games", "Game"}) * 1000) \div Len(text)]

\* sia.polarity_scores(text), in thousandths.
polarity_scores(text) ==
    LET p == IF Len(text) = 0 THEN 0 ELSE (Count(text, {"games"}) * 1000) \div Len(text)
    IN  [pos |-> p, neg |-> 0,
         neu |-> IF Len(text) = 0 THEN 0 ELSE 1000 - p,
         compound |-> (p * 3) \div 4]

\* sent1.similarity(sent2) of the docs of two texts, in thousandths.
similarity(t1, t2) ==
    LET a == {t1[i] : i \in 1..Len(t1)}
        b == {t2[i] : i \in 1..Len(t2)}
    IN  IF a \cup b = {} THEN 0
        ELSE (Cardinality(a \cap b) * 1000) \div Cardinality(a \cup b)

Event(op, args) == [op |-> op, args |-> args]

(***************************************************************************)
(* Module initialisation.                                                  *)
(***************************************************************************)
Init ==
    /\ pc = "download"
    /\ lexicon = FALSE
    /\ nlp = FALSE
    /\ paragraph = <<>>
    /\ doc = <<>>
    /\ sia = FALSE
    /\ results = <<>>
    /\ sentences = <<>>
    /\ sent1 = <<>>
    /\ sent2 = <<>>
    /\ analysis_results = NoResult
    /\ passed = NoResult
    /\ out = <<>>
    /\ prev_out = None
    /\ calls = 0
    /\ log = <<>>

\* nltk.download: reports a failure by its return value, which is dropped.
Download ==
    /\ pc = "download"
    /\ \E got \in BOOLEAN : lexicon' = got
    /\ log' = Append(log, Event("download", <<>>))
    /\ pc' = "load"
    /\ UNCHANGED <<nlp, paragraph, doc, sia, results, sentences, sent1, sent2,
                   analysis_results, passed, out, prev_out, calls>>

\* Mutant of Load: a failed load is swallowed and the program goes on.
M_Load ==
    /\ pc = "load"
    /\ log' = Append(log, Event("load", <<>>))
    /\ \E loaded \in BOOLEAN : nlp' = loaded
    /\ pc' = "main"
    /\ UNCHANGED <<lexicon, paragraph, doc, sia, results, sentences, sent1, sent2,
                   analysis_results, passed, out, prev_out, calls>>

\* nlp = spacy.load('en_core_web_sm')
Load ==
    /\ pc = "load"
    /\ log' = Append(log, Event("load", <<>>))
    /\ \/ nlp' = TRUE /\ pc' = "main"
       \/ nlp' = FALSE /\ pc' = "import_failed"
    /\ UNCHANGED <<lexicon, paragraph, doc, sia, results, sentences, sent1, sent2,
                   analysis_results, passed, out, prev_out, calls>>

(***************************************************************************)
(* analyze_semantics                                                       *)
(***************************************************************************)
\* Mutant of Raise: the exception is caught and the record built so far returned.
M_Raise ==
    /\ pc' = "a_return"
    /\ UNCHANGED <<lexicon, nlp, paragraph, doc, sia, results, sentences, sent1, sent2,
                   analysis_results, passed, out, prev_out, calls>>

\* An exception leaves analyze_semantics: the caller's name stays unbound.
Raise ==
    /\ pc' = "raised"
    /\ UNCHANGED <<lexicon, nlp, paragraph, doc, sia, results, sentences, sent1, sent2,
                   analysis_results, passed, out, prev_out, calls>>

\* analysis_results = analyze_semantics(paragraph); results = {}
CallAnalyze ==
    /\ pc = "main"
    /\ analysis_results = NoResult
    /\ \E p \in Texts : paragraph' = p
    /\ results' = <<>>
    /\ pc' = "a_nlp"
    /\ UNCHANGED <<lexicon, nlp, doc, sia, sentences, sent1, sent2, analysis_results,
                   passed, out, prev_out, calls, log>>

\* Mutant of RunPipeline: an empty paragraph is rejected before the pipeline is run.
M_RunPipeline ==
    /\ pc = "a_nlp"
    /\ IF paragraph = <<>>
       THEN log' = log /\ Raise
       ELSE /\ log' = Append(log, Event("nlp", <<paragraph>>))
            /\ \/ /\ \E seg \in Segmentations(Len(paragraph)) :
                        doc' = Pipeline(paragraph, seg)
                  /\ pc' = "a_textblob"
                  /\ UNCHANGED <<lexicon, nlp, paragraph, sia, results, sentences, sent1,
                                 sent2, analysis_results, passed, out, prev_out, calls>>
               \/ Raise

\* doc = nlp(paragraph)
RunPipeline ==
    /\ pc = "a_nlp"
    /\ log' = Append(log, Event("nlp", <<paragraph>>))
    /\ \/ /\ \E seg \in Segmentations(Len(paragraph)) : doc' = Pipeline(paragraph, seg)
          /\ pc' = "a_textblob"
          /\ UNCHANGED <<lexicon, nlp, paragraph, sia, results, sentences, sent1, sent2,
                         analysis_results, passed, out, prev_out, calls>>
       \/ Raise

\* blob = TextBlob(paragraph); results['sentiment_textblob'] = {...}
SentimentTextBlob ==
    /\ pc = "a_textblob"
    /\ log' = Append(log, Event("textblob", <<paragraph>>))
    /\ \/ /\ results' = Put(results, "sentiment_textblob", TextBlobSentiment(paragraph))
          /\ pc' = "a_sia"
          /\ UNCHANGED <<lexicon, nlp, paragraph, doc, sia, sentences, sent1, sent2,
                         analysis_results, passed, out, prev_out, calls>>
       \/ Raise

\* sia = SentimentIntensityAnalyzer(): needs the vader_lexicon data.
ConstructVader ==
    /\ pc = "a_sia"
    /\ log' = Append(log, Event("sia", <<>>))
    /\ \/ /\ lexicon
          /\ sia' = TRUE
          /\ pc' = "a_vader"
          /\ UNCHANGED <<lexicon, nlp, paragraph, doc, results, sentences, sent1, sent2,
                         analysis_results, passed, out, prev_out, calls>>
       \/ /\ ~lexicon
          /\ Raise

\* vader_scores = sia.polarity_scores(paragraph); results['sentiment_vader'] = vader_scores
SentimentVader ==
    /\ pc = "a_vader"
    /\ log' = Append(log, Event("vader", <<paragraph>>))
    /\ \/ /\ results' = Put(results, "sentiment_vader", polarity_scores(paragraph))
          /\ pc' = "a_entities"
          /\ UNCHANGED <<lexicon, nlp, paragraph, doc, sia, sentences, sent1, sent2,
                         analysis_results, passed, out, prev_out, calls>>
       \/ Raise

\* doc.ents: the tokens that carry an entity label, in order.
ents(d) == SelectSeq(d, LAMBDA t : t.label_ /= "")

\* doc.noun_chunks
noun_chunks(d) == SelectSeq(d, LAMBDA t : t.pos_ \in {"NOUN", "PROPN"})

\* Mutant of AppendTo: a text already listed under the key is not listed again.
M_AppendTo(d, k, v) ==
    IF k \in Keys(d)
    THEN IF \E i \in 1..Len(Get(d, k)) : Get(d, k)[i] = v
         THEN d
         ELSE Put(d, k, Append(Get(d, k), v))
    ELSE Put(d, k, <<v>>)

\* entities[k].append(v) on a defaultdict(list)
AppendTo(d, k, v) == Put(d, k, IF k \in Keys(d) THEN Append(Get(d, k), v) ELSE <<v>>)

\* word_freq[k] += 1 on a defaultdict(int)
Increment(d, k) == Put(d, k, IF k \in Keys(d) THEN Get(d, k) + 1 ELSE 1)

RECURSIVE GroupEntities(_, _)
\* for ent in doc.ents: entities[ent.label_].append(ent.text)
GroupEntities(es, entities) ==
    IF es = <<>> THEN entities
    ELSE GroupEntities(Tail(es), AppendTo(entities, Head(es).label_, Head(es).text))

RECURSIVE GroupPos(_, _)
\* for token in doc: pos_tags[token.pos_].append(token.text)
GroupPos(d, pos_tags) ==
    IF d = <<>> THEN pos_tags
    ELSE GroupPos(Tail(d), AppendTo(pos_tags, Head(d).pos_, Head(d).text))

\* if not token.is_stop and not token.is_punct and not token.is_space
Counted(token) == ~token.is_stop /\ ~token.is_punct /\ ~token.is_space

\* Mutant of FreqKey: the lemma is not lowercased.
M_FreqKey(token) == token.lemma_

\* The key a counted token is counted under.
FreqKey(token) == lower(token.lemma_)

RECURSIVE CountWords(_, _)
\* for token in doc: if ...: word_freq[token.lemma_.lower()] += 1
CountWords(d, word_freq) ==
    IF d = <<>> THEN word_freq
    ELSE CountWords(Tail(d), IF Counted(Head(d))
                             THEN Increment(word_freq, FreqKey(Head(d)))
                             ELSE word_freq)

\* Mutant of Lemmas: whitespace tokens are skipped.
M_Lemmas(d) ==
    LET kept == SelectSeq(d, LAMBDA t : ~t.is_space)
    IN  [i \in 1..Len(kept) |-> kept[i].lemma_]

\* [token.lemma_ for token in doc]
Lemmas(d) == [i \in 1..Len(d) |-> d[i].lemma_]

\* [(token.text, token.dep_, token.head.text) for token in doc]
Dependencies(d) == [i \in 1..Len(d) |-> <<d[i].text, dep_(d, i), d[head(d, i)].text>>]

\* [sent.text for sent in doc.sents]
SentenceTexts(d) == [k \in 1..Len(sents(d)) |-> SpanText(d, sents(d)[k].start, sents(d)[k].end)]

\* A step of analyze_semantics that calls no model: results[key] = value.
Store(at, key, value, to) ==
    /\ pc = at
    /\ results' = Put(results, key, value)
    /\ pc' = to
    /\ UNCHANGED <<lexicon, nlp, paragraph, doc, sia, sentences, sent1, sent2,
                   analysis_results, passed, out, prev_out, calls, log>>

NamedEntities == Store("a_entities", "named_entities", GroupEntities(ents(doc), <<>>), "a_pos")

PosTags == Store("a_pos", "pos_tags", GroupPos(doc, <<>>), "a_lemmas")

Lemmatization == Store("a_lemmas", "lemmas", Lemmas(doc), "a_deps")

DependencyParsing == Store("a_deps", "dependencies", Dependencies(doc), "a_phrases")

KeyPhrases ==
    Store("a_phrases", "key_phrases",
          [i \in 1..Len(noun_chunks(doc)) |-> noun_chunks(doc)[i].text], "a_freq")

WordFrequency == Store("a_freq", "word_frequency", CountWords(doc, <<>>), "a_sentences")

\* Mutant of HasTwoSentences: off by one.
M_HasTwoSentences(s) == Len(s) > 2

\* if len(sentences) > 1
HasTwoSentences(s) == Len(s) > 1

\* sentences = [...]; if len(sentences) > 1:
Sentences ==
    /\ pc = "a_sentences"
    /\ sentences' = SentenceTexts(doc)
    /\ pc' = IF HasTwoSentences(SentenceTexts(doc)) THEN "a_sent1" ELSE "a_return"
    /\ UNCHANGED <<lexicon, nlp, paragraph, doc, sia, results, sent1, sent2,
                   analysis_results, passed, out, prev_out, calls, log>>

\* The sentences compared: sentences[0] and sentences[1].
FirstIndex == 1
SecondIndex == 2

\* sent1 = nlp(sentences[0])
ParseFirst ==
    /\ pc = "a_sent1"
    /\ log' = Append(log, Event("nlp", <<sentences[FirstIndex]>>))
    /\ \/ /\ sent1' = sentences[FirstIndex]
          /\ pc' = "a_sent2"
          /\ UNCHANGED <<lexicon, nlp, paragraph, doc, sia, results, sentences, sent2,
                         analysis_results, passed, out, prev_out, calls>>
       \/ Raise

\* sent2 = nlp(sentences[1])
ParseSecond ==
    /\ pc = "a_sent2"
    /\ log' = Append(log, Event("nlp", <<sentences[SecondIndex]>>))
    /\ \/ /\ sent2' = sentences[SecondIndex]
          /\ pc' = "a_similarity"
          /\ UNCHANGED <<lexicon, nlp, paragraph, doc, sia, results, sentences, sent1,
                         analysis_results, passed, out, prev_out, calls>>
       \/ Raise

\* results['semantic_similarity'] = sent1.similarity(sent2)
Similarity ==
    /\ pc = "a_similarity"
    /\ log' = Append(log, Event("similarity", <<sent1, sent2>>))
    /\ \/ /\ results' = Put(results, "semantic_similarity", similarity(sent1, sent2))
          /\ pc' = "a_return"
          /\ UNCHANGED <<lexicon, nlp, paragraph, doc, sia, sentences, sent1, sent2,
                         analysis_results, passed, out, prev_out, calls>>
       \/ Raise

\* return results
Return ==
    /\ pc = "a_return"
    /\ analysis_results' = <<results>>
    /\ pc' = "main"
    /\ UNCHANGED <<lexicon, nlp, paragraph, doc, sia, results, sentences, sent1, sent2,
                   passed, out, prev_out, calls, log>>

Analyze ==
    \/ CallAnalyze \/ RunPipeline \/ SentimentTextBlob \/ ConstructVader \/ SentimentVader
    \/ NamedEntities \/ PosTags \/ Lemmatization \/ DependencyParsing \/ KeyPhrases
    \/ WordFrequency \/ Sentences \/ ParseFirst \/ ParseSecond \/ Similarity \/ Return

(***************************************************************************)
(* print_semantic_analysis                                                 *)
(***************************************************************************)
\* A printed line: its section (0: the title), what it is, and its content.
Line(section, kind, key, num, items) ==
    [section |-> section, kind |-> kind, key |-> key, num |-> num, items |-> items]

\* f"{x:.2f}" of a value in thousandths: the value in hundredths.
Fmt2(x) == IF x >= 0 THEN (x + 5) \div 10 ELSE -((5 - x) \div 10)

\* ', '.join(xs): the pieces of the joined string.
Join(xs) ==
    IF xs = <<>> THEN <<>>
    ELSE [i \in 1..(2 * Len(xs) - 1) |-> IF i % 2 = 1 THEN xs[(i + 1) \div 2] ELSE ", "]

\* Mutant of InsertDesc: an unstable sort, ties come out in reverse order.
M_InsertDesc(s, x) ==
    LET k == Cardinality({i \in 1..Len(s) : s[i][2] > x[2]})
    IN  SubSeq(s, 1, k) \o <<x>> \o SubSeq(s, k + 1, Len(s))

\* Where x goes into s, sorted by descending count: after every entry that does not
\* count less.
InsertDesc(s, x) ==
    LET k == Cardinality({i \in 1..Len(s) : s[i][2] >= x[2]})
    IN  SubSeq(s, 1, k) \o <<x>> \o SubSeq(s, k + 1, Len(s))

RECURSIVE SortInto(_, _)
SortInto(done, rest) ==
    IF rest = <<>> THEN done ELSE SortInto(InsertDesc(done, Head(rest)), Tail(rest))

\* sorted(items, key=lambda x: x[1], reverse=True)
SortedDesc(items) == SortInto(<<>>, items)

\* xs[:n]
Slice(xs, n) == SubSeq(xs, 1, IF Len(xs) < n THEN Len(xs) ELSE n)

\* sorted_words
SortedWords(word_frequency) == Slice(SortedDesc(word_frequency), TopN)

\* The argument of the running formatter call.
Arg == analysis_results[1]

\* if 'semantic_similarity' in results
HasSimilarity(r) == "semantic_similarity" \in Keys(r)

\* Names of the words of a record handed directly to the formatter.
WordNames ==
    <<"w01", "w02", "w03", "w04", "w05", "w06", "w07", "w08", "w09", "w10",
      "w11", "w12", "w13", "w14", "w15", "w16">>

\* Counts of the words of such a record: two values give ties as well as strict
\* differences, which is what a sort by count can tell apart.
Frequencies == {1, 2}

\* A well-formed record, as analyze_semantics builds it.
WellFormed(word_frequency, with_similarity) ==
    << <<"sentiment_textblob", [polarity |-> -125, subjectivity |-> 666]>>,
       <<"sentiment_vader", [pos |-> 333, neg |-> 0, neu |-> 667, compound |-> 250]>>,
       <<"named_entities", << <<"GPE", <<"London", "London">> >>, <<"ORG", <<"Game">> >> >> >>,
       <<"pos_tags", <<>> >>,
       <<"lemmas", <<>> >>,
       <<"dependencies", <<>> >>,
       <<"key_phrases", <<"London", "Game">> >>,
       <<"word_frequency", word_frequency>> >>
    \o IF with_similarity THEN << <<"semantic_similarity", 500>> >> ELSE <<>>

\* A caller hands the formatter a well-formed record of its own.
HandResult ==
    /\ pc = "main"
    /\ analysis_results = NoResult
    /\ \E n \in 0..MaxWF, sim \in BOOLEAN :
         \E counts \in [1..n -> Frequencies] :
            analysis_results' =
                <<WellFormed([i \in 1..n |-> <<WordNames[i], counts[i]>>], sim)>>
    /\ UNCHANGED <<pc, lexicon, nlp, paragraph, doc, sia, results, sentences, sent1, sent2,
                   passed, out, prev_out, calls, log>>

\* print_semantic_analysis(analysis_results)
CallPrint ==
    /\ pc = "main"
    /\ analysis_results /= NoResult
    /\ calls < 2
    /\ calls' = calls + 1
    /\ passed' = IF calls = 0 THEN analysis_results ELSE passed
    /\ prev_out' = IF calls = 0 THEN None ELSE <<out>>
    /\ out' = <<>>
    /\ pc' = "p_sentiment"
    /\ UNCHANGED <<lexicon, nlp, paragraph, doc, sia, results, sentences, sent1, sent2,
                   analysis_results, log>>

\* A step of the formatter: it writes lines and goes on.
Write(at, lines, to) ==
    /\ pc = at
    /\ out' = out \o lines
    /\ pc' = to
    /\ UNCHANGED <<lexicon, nlp, paragraph, doc, sia, results, sentences, sent1, sent2,
                   analysis_results, passed, prev_out, calls, log>>

SentimentLines(r) ==
    << Line(0, "title", "=== Semantic Analysis Results ===", 0, <<>>),
       Line(1, "header", "1. Sentiment Analysis:", 0, <<>>),
       Line(1, "value", "TextBlob - Polarity", Fmt2(Get(r, "sentiment_textblob").polarity), <<>>),
       Line(1, "value", "TextBlob - Subjectivity",
            Fmt2(Get(r, "sentiment_textblob").subjectivity), <<>>),
       Line(1, "value", "VADER - Positive", Fmt2(Get(r, "sentiment_vader").pos), <<>>),
       Line(1, "value", "VADER - Negative", Fmt2(Get(r, "sentiment_vader").neg), <<>>),
       Line(1, "value", "VADER - Neutral", Fmt2(Get(r, "sentiment_vader").neu), <<>>),
       Line(1, "value", "VADER - Compound", Fmt2(Get(r, "sentiment_vader").compound), <<>>) >>

\* for entity_type, entities in results['named_entities'].items(): print(...)
EntityLines(named_entities) ==
    <<Line(2, "header", "2. Named Entities:", 0, <<>>)>>
    \o [i \in 1..Len(named_entities) |->
          Line(2, "entity", named_entities[i][1], 0, Join(named_entities[i][2]))]

PhraseLines(key_phrases) ==
    << Line(3, "header", "3. Key Phrases (noun chunks):", 0, <<>>),
       Line(3, "phrases", "", 0, Join(key_phrases)) >>

\* for word, freq in sorted_words: print(f"{word}: {freq}")
FrequencyLines(word_frequency) ==
    <<Line(4, "header", "4. Most Frequent Words (excluding stop words):", 0, <<>>)>>
    \o [i \in 1..Len(SortedWords(word_frequency)) |->
          Line(4, "word", SortedWords(word_frequency)[i][1],
               SortedWords(word_frequency)[i][2], <<>>)]

\* Mutant of SimilarityLines: the line is written whether the key is present or not.
M_SimilarityLines(r) ==
    <<Line(5, "similarity", "5. Semantic Similarity between first two sentences",
           IF HasSimilarity(r) THEN Fmt2(Get(r, "semantic_similarity")) ELSE 0, <<>>)>>

SimilarityLines(r) ==
    IF HasSimilarity(r)
    THEN <<Line(5, "similarity", "5. Semantic Similarity between first two sentences",
                Fmt2(Get(r, "semantic_similarity")), <<>>)>>
    ELSE <<>>

PrintSentiment == Write("p_sentiment", SentimentLines(Arg), "p_entities")

PrintEntities == Write("p_entities", EntityLines(Get(Arg, "named_entities")), "p_phrases")

PrintPhrases == Write("p_phrases", PhraseLines(Get(Arg, "key_phrases")), "p_freq")

\* Mutant of PrintFrequencies: the mapping is sorted in place.
M_PrintFrequencies ==
    /\ pc = "p_freq"
    /\ out' = out \o FrequencyLines(Get(Arg, "word_frequency"))
    /\ analysis_results' =
          <<Put(Arg, "word_frequency", SortedDesc(Get(Arg, "word_frequency")))>>
    /\ pc' = "p_similarity"
    /\ UNCHANGED <<lexicon, nlp, paragraph, doc, sia, results, sentences, sent1, sent2,
                   passed, prev_out, calls, log>>

PrintFrequencies == Write("p_freq", FrequencyLines(Get(Arg, "word_frequency")), "p_similarity")

PrintSimilarity == Write("p_similarity", SimilarityLines(Arg), "main")

Formatter ==
    \/ CallPrint \/ PrintSentiment \/ PrintEntities \/ PrintPhrases
    \/ PrintFrequencies \/ PrintSimilarity

\* The program: the module is imported, a paragraph is analysed and the record printed.
Next == Download \/ Load \/ Analyze \/ Formatter

Spec == Init /\ [][Next]_vars

\* The formatter alone, in the imported module, on records handed to it.
InitFormat ==
    /\ pc = "main"
    /\ lexicon = TRUE
    /\ nlp = TRUE
    /\ paragraph = <<>>
    /\ doc = <<>>
    /\ sia = FALSE
    /\ results = <<>>
    /\ sentences = <<>>
    /\ sent1 = <<>>
    /\ sent2 = <<>>
    /\ analysis_results = NoResult
    /\ passed = NoResult
    /\ out = <<>>
    /\ prev_out = None
    /\ calls = 0
    /\ log = <<Event("download", <<>>), Event("load", <<>>)>>

NextFormat == HandResult \/ Formatter

SpecFormat == InitFormat /\ [][NextFormat]_vars

(***************************************************************************)
(* Properties.  Returned is the record analyze_semantics returned (or the  *)
(* record handed to the formatter).                                        *)
(***************************************************************************)
HasReturned == analysis_results /= NoResult
Returned == analysis_results[1]

\* The model calls of one kind that the log holds.
CallsOf(op) == {i \in 1..Len(log) : log[i].op = op}

PrintPcs == {"p_sentiment", "p_entities", "p_phrases", "p_freq", "p_similarity"}

\* A formatter call has run to its end.
Printed == pc = "main" /\ calls >= 1

\* The sentence starts of doc, counted independently of sents: the second and third.
SecondStart == CHOOSE i \in Starts(doc) : i > 1 /\ \A j \in Starts(doc) : j > 1 => i <= j
ThirdStart ==
    CHOOSE i \in Starts(doc) : i > SecondStart
                               /\ \A j \in Starts(doc) : j > SecondStart => i <= j
FirstSentence == SpanText(doc, 1, SecondStart - 1)
SecondSentence ==
    SpanText(doc, SecondStart,
             IF Cardinality(Starts(doc)) > 2 THEN ThirdStart - 1 ELSE Len(doc))
ThirdSentence == SubSeq(paragraph, ThirdStart, Len(paragraph))

\* C1: the returned record has semantic_similarity if and only if the segmentation of
\* the paragraph yields at least 2 sentences; it is then the similarity of the first and
\* the second sentence, the only pair compared (one similarity call, and the pipeline
\* re-run on those two sentences only); with fewer sentences the key is absent.
C1_SimilarityIffTwoSentences ==
    HasReturned =>
        /\ HasSimilarity(Returned) <=> Cardinality(Starts(doc)) >= 2
        /\ HasSimilarity(Returned) =>
              /\ Get(Returned, "semantic_similarity") = similarity(FirstSentence, SecondSentence)
              /\ [i \in 1..Len(log) - 6 |-> log[i + 6]]
                    = << Event("nlp", <<FirstSentence>>), Event("nlp", <<SecondSentence>>),
                         Event("similarity", <<FirstSentence, SecondSentence>>) >>
        /\ ~HasSimilarity(Returned) => CallsOf("similarity") = {} /\ Len(log) = 6

\* C1 witness: three sentences, the third unlike the second, and the similarity returned.
C1_Witness ==
    /\ HasReturned
    /\ Cardinality(Starts(doc)) = 3
    /\ HasSimilarity(Returned)
    /\ similarity(FirstSentence, SecondSentence) /= similarity(FirstSentence, ThirdSentence)
    /\ similarity(FirstSentence, SecondSentence) /= similarity(SecondSentence, ThirdSentence)

\* analyze_semantics has been entered.
Entered == pc \notin {"download", "load", "import_failed"} /\ (pc = "main" => HasReturned)

\* C2 (as stated): called with the empty string, analyze fails and returns no record.
C2_EmptyInputFails == Entered /\ paragraph = <<>> => ~HasReturned

\* C2 (amended): analyze_semantics makes no check of its own on an empty paragraph.  The
\* empty paragraph is passed to the pipeline and the scorers; the call fails only where
\* one of those raises, and otherwise returns a complete record with both sentiment
\* entries, empty named_entities, pos_tags, lemmas, dependencies, key_phrases and
\* word_frequency, and no semantic_similarity.
C2_EmptyInputReturnsEmptyRecord ==
    Entered /\ paragraph = <<>> =>
        /\ pc /= "a_nlp" => Len(log) >= 3 /\ log[3] = Event("nlp", <<paragraph>>)
        /\ pc = "raised" => log[Len(log)].op \in {"nlp", "textblob", "sia", "vader"}
        /\ pc = "a_return" \/ HasReturned =>
              LET r == IF HasReturned THEN Returned ELSE results
              IN  /\ [i \in 1..Len(r) |-> r[i][1]]
                        = <<"sentiment_textblob", "sentiment_vader", "named_entities",
                            "pos_tags", "lemmas", "dependencies", "key_phrases",
                            "word_frequency">>
                  /\ \A k \in {"named_entities", "pos_tags", "lemmas", "dependencies",
                               "key_phrases", "word_frequency"} : Get(r, k) = <<>>

\* C2 witness: the empty paragraph was analysed and a record returned.
C2_Witness == Entered /\ paragraph = <<>> /\ HasReturned /\ pc = "main"

AnalysisOps == {"nlp", "textblob", "vader", "similarity"}

\* C3 (as stated): no pipeline invocation and no sentiment scoring happens before
\* the spaCy model load and the VADER analyzer construction have both succeeded.
C3_AllInitBeforeAnalysis ==
    (\E i \in 1..Len(log) : log[i].op \in AnalysisOps) => nlp /\ sia

\* C3 (amended): no pipeline invocation and no sentiment scoring happens before the
\* spaCy model load has succeeded, and a failed load ends the program before
\* analyze_semantics is entered.  The VADER analyzer is constructed inside
\* analyze_semantics, after the pipeline has run on the paragraph and after the TextBlob
\* scoring; only the VADER scoring waits for its construction to have succeeded.
C3_LoadBeforeAnalysisVaderInside ==
    /\ (\E i \in 1..Len(log) : log[i].op \in AnalysisOps \cup {"sia"}) =>
          nlp /\ \E j \in CallsOf("load") : \A i \in 1..Len(log) :
                     log[i].op \in AnalysisOps \cup {"sia"} => j < i
    /\ ~nlp /\ pc /= "download" /\ pc /= "load" => pc = "import_failed"
    /\ CallsOf("vader") /= {} => sia
    /\ \A i \in CallsOf("sia") :
          /\ \E j \in CallsOf("nlp") : j < i
          /\ \E j \in CallsOf("textblob") : j < i
          /\ \A j \in CallsOf("vader") : i < j

\* C3 witness: the analyzer's construction fails after the pipeline and TextBlob have run.
C3_Witness ==
    /\ pc = "raised"
    /\ log[Len(log)].op = "sia"
    /\ ~sia
    /\ "sentiment_textblob" \in Keys(results)

RequiredKeys ==
    {"sentiment_textblob", "sentiment_vader", "named_entities", "pos_tags", "lemmas",
     "dependencies", "key_phrases", "word_frequency"}

\* C4: a failing model invocation ends the call with the exception at the caller: the
\* caller holds no record (nothing is printed), the failing call is the last call made
\* (no retry, no later step), and a record that is returned is complete, never partial.
C4_FailurePropagates ==
    /\ pc = "raised" =>
          /\ ~HasReturned
          /\ calls = 0 /\ out = <<>>
          /\ log[Len(log)].op \in AnalysisOps \cup {"sia"}
    /\ \A op \in {"textblob", "sia", "vader", "similarity"} : Cardinality(CallsOf(op)) <= 1
    /\ Cardinality(CallsOf("nlp")) <= 3
    /\ \A i, j \in CallsOf("nlp") : i < j => j > 6
    /\ HasReturned =>
          /\ RequiredKeys \subseteq Keys(Returned)
          /\ HasSimilarity(Returned) <=> Len(sentences) > 1

\* C4 witness: the last model call, the similarity, fails on a partly filled record.
C4_Witness ==
    /\ pc = "raised"
    /\ log[Len(log)].op = "similarity"
    /\ RequiredKeys \subseteq Keys(results)

\* C5: in a returned record lemmas and dependencies have one entry per token of the
\* pipeline's doc, entry i being that of token i.
C5_OneEntryPerToken ==
    HasReturned =>
        LET lemmas == Get(Returned, "lemmas")
            dependencies == Get(Returned, "dependencies")
        IN  /\ Len(lemmas) = Len(doc)
            /\ Len(dependencies) = Len(doc)
            /\ Len(lemmas) = Len(dependencies)
            /\ \A i \in 1..Len(doc) :
                  /\ lemmas[i] = lemma_(paragraph[i])
                  /\ dependencies[i][1] = paragraph[i]

\* C5 witness: a returned record of a paragraph with a whitespace token and a word.
C5_Witness ==
    /\ HasReturned
    /\ Len(doc) = 3
    /\ doc[2].is_space
    /\ doc[3].text = "games"
    /\ Get(Returned, "lemmas")[3] = "game"

\* The tokens counted under key k, stated on the tokens' attributes.
CountedAs(k) ==
    {i \in 1..Len(doc) : /\ ~is_stop(paragraph[i])
                         /\ ~is_punct(paragraph[i])
                         /\ ~is_space(paragraph[i])
                         /\ lower(lemma_(paragraph[i])) = k}

RECURSIVE Sum(_)
Sum(xs) == IF xs = <<>> THEN 0 ELSE Head(xs) + Sum(Tail(xs))

\* C6: every key of word_frequency is the lowercased lemma of a token that is no
\* stop-word, punctuation or whitespace, its value is the number of such tokens (>= 1),
\* the counts sum to at most the token count, and every such token is counted.
C6_WordFrequencyCounts ==
    HasReturned =>
        LET wf == Get(Returned, "word_frequency")
        IN  /\ \A i, j \in 1..Len(wf) : wf[i][1] = wf[j][1] => i = j
            /\ \A i \in 1..Len(wf) :
                  /\ CountedAs(wf[i][1]) /= {}
                  /\ wf[i][2] = Cardinality(CountedAs(wf[i][1]))
                  /\ wf[i][2] >= 1
            /\ Sum([i \in 1..Len(wf) |-> wf[i][2]]) <= Len(doc)
            /\ \A i \in 1..Len(doc) :
                  (\E k \in Keys(wf) : i \in CountedAs(k))
                  <=> ~(doc[i].is_stop \/ doc[i].is_punct \/ doc[i].is_space)

\* C6 witness: two tokens whose lemmas differ in case only are counted together, next
\* to a stop-word.
C6_Witness ==
    /\ HasReturned
    /\ Get(Returned, "word_frequency") = << <<"game", 2>> >>
    /\ \E i, j \in 1..Len(doc) : doc[i].lemma_ = "Game" /\ doc[j].lemma_ = "game"
    /\ \E i \in 1..Len(doc) : doc[i].is_stop

\* The word lines of the running formatter call, in the order written.
WordLines == SelectSeq(out, LAMBDA l : l.kind = "word")

\* Position of key k in the mapping d.
IndexOf(d, k) == CHOOSE i \in 1..Len(d) : d[i][1] = k

\* C7: the word lines are min(10, entries) lines, each an entry of word_frequency, in
\* non-increasing order of count, equal counts in insertion order, and no entry left
\* out counts more than a printed one.
C7_TopTenSortedStable ==
    HasReturned /\ calls >= 1 /\ pc \in {"p_similarity", "main"} =>
        LET wf == Get(Returned, "word_frequency")
            n == Len(WordLines)
        IN  /\ n = IF Len(wf) < 10 THEN Len(wf) ELSE 10
            /\ \A i \in 1..n : /\ WordLines[i].key \in Keys(wf)
                               /\ WordLines[i].num = Get(wf, WordLines[i].key)
            /\ \A i, j \in 1..n :
                  i < j => /\ WordLines[i].num >= WordLines[j].num
                           /\ WordLines[i].key /= WordLines[j].key
                           /\ WordLines[i].num = WordLines[j].num =>
                                 IndexOf(wf, WordLines[i].key) < IndexOf(wf, WordLines[j].key)
            /\ \A e \in 1..Len(wf) :
                  (\A i \in 1..n : WordLines[i].key /= wf[e][1]) =>
                      \A i \in 1..n : wf[e][2] <= WordLines[i].num

\* C7 witness: more than 10 entries, the 11th among the most frequent, so that it is
\* printed and an earlier entry is left out.
C7_Witness ==
    /\ Printed /\ HasReturned
    /\ LET wf == Get(Returned, "word_frequency")
       IN  /\ Len(wf) = 11
           /\ wf[11][2] = 2 /\ wf[1][2] = 1 /\ wf[2][2] = 2 /\ wf[3][2] = 1
           /\ Len(WordLines) = 10
           /\ \E i \in 1..10 : WordLines[i].key = wf[11][1]

\* The sections of the lines written, in the order written.
Sections == [i \in 1..Len(out) |-> out[i].section]

HeadersOf(n) == {i \in 1..Len(out) : out[i].kind = "header" /\ out[i].section = n}

\* C8: the formatter writes its sections in the order sentiment, named entities, key
\* phrases, word frequencies, similarity; the similarity line is written, last, exactly
\* when the record has semantic_similarity; and every step of the formatter can be
\* taken, also on empty named_entities, key_phrases and word_frequency.
C8_SectionOrder ==
    /\ \A i, j \in 1..Len(out) : i < j => Sections[i] <= Sections[j]
    /\ pc \in PrintPcs => ENABLED Formatter
    /\ Printed =>
          /\ \A n \in 1..4 : Cardinality(HeadersOf(n)) = 1
          /\ \A n \in 1..4 : \A i \in 1..Len(out) :
                out[i].section = n => \E h \in HeadersOf(n) : h <= i
          /\ out[1].kind = "title"
          /\ HasSimilarity(Returned) <=> \E i \in 1..Len(out) : out[i].section = 5
          /\ HasSimilarity(Returned) =>
                /\ out[Len(out)].kind = "similarity"
                /\ Cardinality({i \in 1..Len(out) : out[i].section = 5}) = 1
          /\ ~HasSimilarity(Returned) => out[Len(out)].section = 4

\* C8 witness: a record without entities, key phrases, counted words and similarity
\* has been printed.
C8_Witness ==
    /\ Printed
    /\ Get(Returned, "named_entities") = <<>>
    /\ Get(Returned, "key_phrases") = <<>>
    /\ Get(Returned, "word_frequency") = <<>>
    /\ ~HasSimilarity(Returned)
    /\ Len(doc) = 2

\* The texts of the entities the pipeline found with label l, in the order found.
EntityTexts(l) ==
    LET found == SelectSeq(doc, LAMBDA t : label_(t.text) = l)
    IN  [i \in 1..Len(found) |-> found[i].text]

EntityLinesOut == SelectSeq(out, LAMBDA l : l.kind = "entity")

\* C9: named_entities maps each label to the texts of exactly the entities found with
\* that label, in order and with repeats; a label without an entity is no key; the
\* formatter writes one line per key, holding the key's texts.
C9_EntitiesGrouped ==
    HasReturned =>
        LET ne == Get(Returned, "named_entities")
        IN  /\ \A i, j \in 1..Len(ne) : ne[i][1] = ne[j][1] => i = j
            /\ Keys(ne) = {label_(paragraph[i]) : i \in 1..Len(paragraph)} \ {""}
            /\ \A i \in 1..Len(ne) : ne[i][2] = EntityTexts(ne[i][1]) /\ ne[i][2] /= <<>>
            /\ calls >= 1 /\ pc \in {"p_phrases", "p_freq", "p_similarity", "main"} =>
                  /\ Len(EntityLinesOut) = Len(ne)
                  /\ \A i \in 1..Len(ne) :
                        /\ EntityLinesOut[i].key = ne[i][1]
                        /\ LET texts == EntityTexts(ne[i][1])
                               items == EntityLinesOut[i].items
                           IN  /\ Len(items) = 2 * Len(texts) - 1
                               /\ \A j \in 1..Len(texts) : items[2 * j - 1] = texts[j]
                               /\ \A j \in 1..(Len(texts) - 1) : items[2 * j] = ", "

\* C9 witness: a repeated entity text under one label and another label, printed.
C9_Witness ==
    /\ Printed /\ HasReturned
    /\ Get(Returned, "named_entities")
          = << <<"ORG", <<"Game">> >>, <<"GPE", <<"London", "London">> >> >>
    /\ Len(EntityLinesOut) = 2

\* C10: a formatter call leaves the record as it was passed, and a second call on it
\* writes the lines the first call wrote.
C10_FormatterPure ==
    /\ calls >= 1 => analysis_results = passed
    /\ calls = 2 /\ pc = "main" => prev_out = <<out>>

\* C10 witness: two calls have run on a record of more than 10 words that sorting
\* would reorder.
C10_Witness ==
    /\ calls = 2 /\ pc = "main"
    /\ LET wf == Get(Returned, "word_frequency")
       IN  Len(wf) = 11 /\ wf[1][2] = 1 /\ wf[11][2] = 2
    /\ Len(out) > 10
====
